---- MODULE Spec2Model ----
(***************************************************************************)
(* The Cloud Spanner string indexer                                        *)
(* (src/sentry/sentry_metrics/indexer/cloudspanner/cloudspanner.py):       *)
(* IdCodec, and RawCloudSpannerIndexer.bulk_record / record / resolve /    *)
(* reverse_resolve run by concurrent callers against one table.            *)
(*                                                                         *)
(* A table row is [key, id, decoded_id]: key is <<organization_id,         *)
(* string>>, id the primary key (the encoded id).  A KeyResults is a       *)
(* function from keys to [id, fetch_type, fetch_type_ext]; an Optional     *)
(* value is a set with at most one element ({} is None).                   *)
(***************************************************************************)
EXTENDS Integers, Sequences, FiniteSets, TLC

\* ---------------------------------------------------------------- bounds
\* IdCodec is checked over W-bit ids: reversal over W+1 bits, bias 2^W.
W == 3
\* get_id() returns a value of 0..MaxGenId.
MaxGenId == 2
\* The callers pass the first MaxKeys keys of AllKeys.
MaxKeys == 2

\* ---------------------------------------------------- program constants
_MAX_CONSECUTIVE_ID_GENERATION_FAILURES == 5

\* ------------------------------------------------------------ the inputs
Callers == {"c1", "c2"}
AllKeys == << <<1, "a">>, <<2, "a">>, <<1, "b">>, <<2, "b">> >>
KeySeq == SubSeq(AllKeys, 1, IF MaxKeys < Len(AllKeys) THEN MaxKeys ELSE Len(AllKeys))
Keys == {KeySeq[i] : i \in 1..Len(KeySeq)}
Orgs == {k[1] : k \in Keys}
GenIds == 0..MaxGenId
\* How many values already assigned in the batch get_id() returns in a row
\* before the id of the batch's last key.
DupRuns == {0, _MAX_CONSECUTIVE_ID_GENERATION_FAILURES + 1,
            _MAX_CONSECUTIVE_ID_GENERATION_FAILURES + 2}

None == {}
Some(x) == {x}

VARIABLES
    store,                      \* the table: a set of rows
    pc,                         \* per caller: idle, phase1, phase2, done
    op,                         \* per caller: the operation it runs
    db_read_keys,               \* per caller: the keys of its call
    db_read_key_results,        \* per caller: bulk_record's local
    rate_limited_key_results,   \* per caller: bulk_record's local
    rows_to_insert,             \* per caller: the candidate rows
    inserted,                   \* per caller: the rows its call inserted
    result,                     \* per caller: the KeyResults returned
    value,                      \* per caller: record / resolve / reverse_resolve's value
    outcome,                    \* per caller: none, returned, or the exception raised
    quota_used,                 \* per caller: the write limiter consumed quota
    recorded,                   \* <<key, id>> returned non-None by a finished record()
    reverse_key,                \* per caller: reverse_resolve's <<org_id, id>>
    codec,                      \* the state of the IdCodec round trip
    create                      \* per caller: the locals of _create_db_records

vars == << store, pc, op, db_read_keys, db_read_key_results,
           rate_limited_key_results, rows_to_insert, inserted, result, value,
           outcome, quota_used, recorded, reverse_key,
           codec, create >>

\* No _create_db_records is running.
CreateOff ==
    [tuples |-> << >>, already_assigned_ids |-> {}, failed_id_generation_count |-> 0,
     rows_to_insert |-> {}, generated |-> {}]

\* ------------------------------------------------------------- IdCodec
RECURSIVE Pow2(_)
Pow2(n) == IF n = 0 THEN 1 ELSE 2 * Pow2(n - 1)

\* reverse_bits(number, bit_size): the bit_size-bit pattern of number reversed.
RECURSIVE reverse_bits(_, _)
reverse_bits(number, bit_size) ==
    IF bit_size = 0 THEN 0
    ELSE (number % 2) * Pow2(bit_size - 1)
         + reverse_bits(number \div 2, bit_size - 1)

\* encode reversing one bit less than the width of the field.
encode_halfwidth(v) == reverse_bits(v, W) - Pow2(W)

\* IdCodec.encode: 64 bits are W + 1 bits here, 2**63 is 2^W.
encode(v) == reverse_bits(v, W + 1) - Pow2(W)

\* IdCodec.decode.
decode(v) == reverse_bits(v + Pow2(W), W + 1)

\* ------------------------------------------- KeyCollection / KeyResults
\* The mapping of organization to strings a caller passes for a set of keys.
OrgStrings(K) == [o \in {k[1] : k \in K} |-> {k[2] : k \in {j \in K : j[1] = o}}]

\* KeyCollection(org_strings).as_tuples(), as a set.
KeyCollection(org_strings) ==
    UNION {{<<o, s>> : s \in org_strings[o]} : o \in DOMAIN org_strings}

\* as_tuples() in iteration order.
AsTuples(K) == SelectSeq(KeySeq, LAMBDA k : k \in K)

KeyResults == [k \in {} |-> [id |-> None, fetch_type |-> "", fetch_type_ext |-> ""]]

\* KeyResults.add_key_results: a key added again overwrites.
add_key_results(results, added) ==
    [k \in DOMAIN results \cup DOMAIN added |->
        IF k \in DOMAIN added THEN added[k] ELSE results[k]]

\* KeyResults.merge: the union, the argument's entries last.
merge(results, other) == add_key_results(results, other)

\* KeyResults.get_unmapped_keys: the keys of the collection with no result.
get_unmapped_keys(results, keys) == keys \ DOMAIN results

KeyResult(id, fetch_type, fetch_type_ext) ==
    [id |-> id, fetch_type |-> fetch_type, fetch_type_ext |-> fetch_type_ext]

\* ------------------------------------------------------------ the table
\* The row stored under the id as get_id() returned it.
SpannerIndexerModel_not_encoded(key, decoded_id) ==
    [key |-> key, id |-> decoded_id, decoded_id |-> decoded_id]

SpannerIndexerModel(key, decoded_id) ==
    [key |-> key, id |-> encode(decoded_id), decoded_id |-> decoded_id]

RowKeys(rows) == {r.key : r \in rows}
RowIds(rows) == {r.id : r \in rows}

\* snapshot.read / transaction.read on the unique (organization_id, string) index.
ReadByOrgString(table, keyset) == {r \in table : r.key \in keyset}

\* snapshot.read / transaction.read on the primary key.
ReadById(table, keyset) == {r \in table : r.id \in keyset}

\* A transaction's insert violates a uniqueness constraint only on (organization_id, string).
AlreadyExists_org_string_only(table, rows) ==
    \/ \E r \in rows : r.key \in RowKeys(table)
    \/ \E r, q \in rows : r # q /\ r.key = q.key

\* A transaction's insert violates a uniqueness constraint only on the primary key.
AlreadyExists_id_only(table, rows) ==
    \/ \E r \in rows : r.id \in RowIds(table)
    \/ \E r, q \in rows : r # q /\ r.id = q.id

\* A transaction's insert of rows violates a uniqueness constraint: the
\* commit raises AlreadyExists and nothing is inserted.
AlreadyExists(table, rows) ==
    \/ \E r \in rows : r.key \in RowKeys(table) \/ r.id \in RowIds(table)
    \/ \E r, q \in rows : r # q /\ (r.key = q.key \/ r.id = q.id)

\* What run_in_transaction raises when the insert violates a constraint: the
\* database surfaces the violation as one of two conditions.
ConstraintViolation == {"AlreadyExists", "InvalidArgument"}

\* _get_db_records: the snapshot read, every id decoded, as DB_READ results.
_get_db_records(table, db_keys) ==
    [k \in RowKeys(ReadByOrgString(table, db_keys)) |->
        KeyResult(Some(decode((CHOOSE r \in table : r.key = k).id)), "DB_READ", "")]

\* ------------------------------------------------- _create_db_records
\* The while loop of lines 158-162 for one key: get_id() returns dups values
\* that are already assigned, then fresh.
RECURSIVE GenerateId(_, _, _)
GenerateId(failed_id_generation_count, dups, fresh) ==
    IF dups = 0 THEN Some(fresh)
    ELSE IF failed_id_generation_count > _MAX_CONSECUTIVE_ID_GENERATION_FAILURES
         THEN None
         ELSE GenerateId(failed_id_generation_count + 1, dups - 1, fresh)

\* The rows for the tuples left, or IDGenerationError raised.  gen.ids[k] is the
\* id get_id() ends on for key k; gen.dups is the run of already assigned
\* values it returns before the last key's.
RECURSIVE CreateRows(_, _, _)
CreateRows(tuples, gen, rows) ==
    IF tuples = << >> THEN [raised |-> "", rows |-> rows]
    ELSE LET k == Head(tuples)
             dups == IF Len(tuples) = 1 /\ rows # {} THEN gen.dups ELSE 0
             new_id == GenerateId(0, dups, gen.ids[k])
         IN IF new_id = None THEN [raised |-> "IDGenerationError", rows |-> {}]
            ELSE CreateRows(Tail(tuples), gen,
                            rows \cup {SpannerIndexerModel(k, gen.ids[k])})

_create_db_records(db_keys, gen) == CreateRows(AsTuples(db_keys), gen, {})

\* What get_id() can do during one _create_db_records(db_keys).
Generations(db_keys) ==
    [ids : {ids \in [db_keys -> GenIds] : \A j, k \in db_keys : j # k => ids[j] # ids[k]},
     dups : IF Cardinality(db_keys) > 1 THEN DupRuns ELSE {0}]

\* ------------------------------------------------------ write limiter
\* writes_limiter.check_write_limits(use_case_id, keys): the limiter accepts
\* the keys of accepted and drops the rest, each with the key result it supplies.
check_write_limits(keys, accepted) ==
    [accepted_keys |-> accepted,
     dropped_strings |-> [k \in keys \ accepted |-> KeyResult(None, "RATE_LIMITED", "global")]]

\* Leaving the `with` block of check_write_limits: the limiter consumes the
\* quota when the block exits normally, and not when an exception leaves it.
check_write_limits_exit(raised) == raised = ""

\* ------------------------------------------------------- the callers
\* c1 records batches; c2 records, resolves and reverse resolves single keys.
Batches(c) == IF c = "c1" THEN SUBSET Keys ELSE {}

NoCall(f, c) == [f EXCEPT ![c] = {}]

\* The call of c is over, with the given outcome and results; its locals are gone.
Finish(c, how, res, val, quota) ==
    /\ pc' = [pc EXCEPT ![c] = "done"]
    /\ outcome' = [outcome EXCEPT ![c] = how]
    /\ result' = [result EXCEPT ![c] = res]
    /\ value' = [value EXCEPT ![c] = val]
    /\ quota_used' = [quota_used EXCEPT ![c] = quota]
    /\ db_read_key_results' = [db_read_key_results EXCEPT ![c] = KeyResults]
    /\ rows_to_insert' = NoCall(rows_to_insert, c)

\* KeyResults.__getitem__ twice, `result[org_id][string]`: the id of the key,
\* and KeyError for a key that has no result.
KeyResults_getitem(res, key) ==
    IF key \in DOMAIN res THEN [raised |-> "", id |-> res[key].id]
    ELSE [raised |-> "KeyError", id |-> None]

\* bulk_record returns res (line 368, 389 or 396); record then returns the id
\* of its key in res (line 401).
Return(c, operation, keys, res, quota) ==
    IF operation = "record"
    THEN LET got == KeyResults_getitem(res, CHOOSE k \in keys : TRUE)
         IN Finish(c, IF got.raised = "" THEN "returned" ELSE got.raised, res, got.id, quota)
    ELSE Finish(c, "returned", res, None, quota)

\* _create_db_records run in one step: get_id() does what gen says; the rows go
\* to the Phase 1 transaction, or IDGenerationError leaves bulk_record.
CreateAtOnce(c, db_read, accepted_keys) ==
    /\ UNCHANGED create
    /\ \E gen \in Generations(accepted_keys) :
         LET new_records == _create_db_records(accepted_keys, gen)
         IN IF new_records.raised # ""
            THEN Finish(c, new_records.raised, KeyResults, None,
                        check_write_limits_exit(new_records.raised))
            ELSE /\ pc' = [pc EXCEPT ![c] = "phase1"]
                 /\ db_read_key_results' = [db_read_key_results EXCEPT ![c] = db_read]
                 /\ rows_to_insert' = [rows_to_insert EXCEPT ![c] = new_records.rows]
                 /\ UNCHANGED << outcome, result, value, quota_used >>

\* bulk_record calls _create_db_records (line 391): its locals as of line 154.
CreateStart(c, db_read, accepted_keys) ==
    /\ pc' = [pc EXCEPT ![c] = "create"]
    /\ db_read_key_results' = [db_read_key_results EXCEPT ![c] = db_read]
    /\ create' = [create EXCEPT ![c] =
                    [tuples |-> AsTuples(accepted_keys), already_assigned_ids |-> {},
                     failed_id_generation_count |-> 0, rows_to_insert |-> {},
                     generated |-> {}]]
    /\ UNCHANGED << rows_to_insert, outcome, result, value, quota_used >>

\* The test of line 367 never taking the early return.
NoWriteKeys_never(db_write_keys) == FALSE

\* `db_write_keys.size == 0` (line 367): the snapshot read found every key.
NoWriteKeys(db_write_keys) == db_write_keys = {}

\* bulk_record up to the Phase 1 transaction (lines 347-391): the snapshot
\* read, the write limiter, and _create_db_records, run in one step or, when
\* stepwise, one get_id() at a time.
bulk_record(c, operation, keys, stepwise) ==
    LET db_read == add_key_results(KeyResults, _get_db_records(store, keys))
        db_write_keys == get_unmapped_keys(db_read, keys)
    IN /\ op' = [op EXCEPT ![c] = operation]
       /\ db_read_keys' = [db_read_keys EXCEPT ![c] = keys]
       /\ UNCHANGED << store, inserted, recorded, reverse_key, codec >>
       /\ IF NoWriteKeys(db_write_keys)
          THEN /\ Return(c, operation, keys, db_read, FALSE)
               /\ UNCHANGED << rate_limited_key_results, create >>
          ELSE \E accepted \in SUBSET db_write_keys :
                 LET writes_limiter_state == check_write_limits(db_write_keys, accepted)
                     rate_limited == add_key_results(KeyResults,
                                         writes_limiter_state.dropped_strings)
                 IN /\ rate_limited_key_results' =
                           [rate_limited_key_results EXCEPT ![c] = rate_limited]
                    /\ IF writes_limiter_state.accepted_keys = {}
                       THEN /\ Return(c, operation, keys, merge(db_read, rate_limited),
                                      check_write_limits_exit(""))
                            /\ UNCHANGED create
                       ELSE IF stepwise
                            THEN CreateStart(c, db_read,
                                             writes_limiter_state.accepted_keys)
                            ELSE CreateAtOnce(c, db_read,
                                              writes_limiter_state.accepted_keys)

BulkRecordBegin(c, operation, keys) == bulk_record(c, operation, keys, FALSE)

BulkRecord(c) ==
    /\ pc[c] = "idle"
    /\ \E keys \in Batches(c) : BulkRecordBegin(c, "bulk_record", KeyCollection(OrgStrings(keys)))

Record(c) ==
    /\ pc[c] = "idle"
    /\ c = "c2"
    /\ \E key \in Keys : BulkRecordBegin(c, "record", KeyCollection(OrgStrings({key})))

\* -------------------------------- _create_db_records, one get_id() at a time
\* bulk_record, with _create_db_records run one get_id() at a time.
BulkRecordCreate(c) ==
    /\ pc[c] = "idle"
    /\ \E keys \in Batches(c) :
         bulk_record(c, "bulk_record", KeyCollection(OrgStrings(keys)), TRUE)

\* new_id is not in already_assigned_ids (lines 164-176): the key gets its row,
\* and after the last key the rows are returned to bulk_record.
FreshId(c, cr, new_id) ==
    LET rows == cr.rows_to_insert \cup {SpannerIndexerModel(Head(cr.tuples), new_id)}
    IN IF Tail(cr.tuples) = << >>
       THEN /\ pc' = [pc EXCEPT ![c] = "phase1"]
            /\ rows_to_insert' = [rows_to_insert EXCEPT ![c] = rows]
            /\ create' = [create EXCEPT ![c] = CreateOff]
            /\ UNCHANGED << db_read_key_results, outcome, result, value, quota_used >>
       ELSE /\ create' = [create EXCEPT ![c] =
                            [tuples |-> Tail(cr.tuples),
                             already_assigned_ids |-> cr.already_assigned_ids \cup {new_id},
                             failed_id_generation_count |-> 0,
                             rows_to_insert |-> rows,
                             generated |-> cr.generated \cup {new_id}]]
            /\ UNCHANGED << pc, db_read_key_results, rows_to_insert, outcome, result,
                            value, quota_used >>

\* The duplicate is taken as the key's id.
DuplicateId_accepted(c, cr, new_id) == FreshId(c, cr, new_id)

\* new_id is in already_assigned_ids (lines 158-162): IDGenerationError once
\* the count is over the bound, else the count goes up and get_id() is called again.
DuplicateId(c, cr, new_id) ==
    IF cr.failed_id_generation_count > _MAX_CONSECUTIVE_ID_GENERATION_FAILURES
    THEN /\ Finish(c, "IDGenerationError", KeyResults, None,
                   check_write_limits_exit("IDGenerationError"))
         /\ create' = [create EXCEPT ![c].generated = cr.generated \cup {new_id}]
    ELSE /\ create' = [create EXCEPT
                         ![c].failed_id_generation_count = cr.failed_id_generation_count + 1,
                         ![c].generated = cr.generated \cup {new_id}]
         /\ UNCHANGED << pc, db_read_key_results, rows_to_insert, outcome, result,
                         value, quota_used >>

\* One get_id() (line 157 or 162) and the test of the while loop on its value.
GetId(c) ==
    /\ pc[c] = "create"
    /\ UNCHANGED << store, op, db_read_keys, rate_limited_key_results, inserted,
                    recorded, reverse_key, codec >>
    /\ \E new_id \in GenIds :
         IF new_id \in create[c].already_assigned_ids
         THEN DuplicateId(c, create[c], new_id)
         ELSE FreshId(c, create[c], new_id)

\* The results of line 396 without the keys the write limiter dropped.
BulkRecordResults_without_rate_limited(c, db_write_key_results) ==
    merge(db_read_key_results[c], db_write_key_results)

\* The results bulk_record returns at line 396.
BulkRecordResults(c, db_write_key_results) ==
    merge(merge(db_read_key_results[c], db_write_key_results), rate_limited_key_results[c])

\* The rows reported with the encoded id, row.id, for row.decoded_id.
FirstSeenResults_encoded(rows) ==
    [k \in RowKeys(rows) |->
        KeyResult(Some((CHOOSE r \in rows : r.key = k).id), "FIRST_SEEN", "")]

\* _insert_collisions_not_handled: the rows reported once the batch committed.
FirstSeenResults(rows) ==
    [k \in RowKeys(rows) |->
        KeyResult(Some((CHOOSE r \in rows : r.key = k).decoded_id), "FIRST_SEEN", "")]

\* Phase 1 with an insert that keeps the rows that violate no constraint.
Phase1_partial(c) ==
    /\ pc[c] = "phase1"
    /\ UNCHANGED << op, db_read_keys, rate_limited_key_results, recorded, reverse_key,
                    codec, create >>
    /\ IF AlreadyExists(store, rows_to_insert[c])
       THEN /\ pc' = [pc EXCEPT ![c] = "phase2"]
            /\ store' = store \cup {r \in rows_to_insert[c] :
                                       r.key \notin RowKeys(store) /\ r.id \notin RowIds(store)}
            /\ UNCHANGED << db_read_key_results, rows_to_insert, inserted, result,
                            value, outcome, quota_used >>
       ELSE /\ store' = store \cup rows_to_insert[c]
            /\ inserted' = [inserted EXCEPT ![c] = rows_to_insert[c]]
            /\ Return(c, op[c], db_read_keys[c],
                      BulkRecordResults(c, add_key_results(KeyResults,
                                               FirstSeenResults(rows_to_insert[c]))),
                      check_write_limits_exit(""))

\* Phase 1 (_insert_collisions_not_handled, called at line 194): one insert of
\* the whole batch; on a conflict, raised as AlreadyExists or InvalidArgument
\* (lines 223-227), _insert_db_records goes on to Phase 2.
Phase1(c) ==
    /\ pc[c] = "phase1"
    /\ UNCHANGED << op, db_read_keys, rate_limited_key_results, recorded, reverse_key,
                    codec, create >>
    /\ IF AlreadyExists(store, rows_to_insert[c])
       THEN \E raised \in ConstraintViolation :
              /\ raised \in {"AlreadyExists", "InvalidArgument"}
              /\ pc' = [pc EXCEPT ![c] = "phase2"]
              /\ UNCHANGED << store, db_read_key_results, rows_to_insert, inserted, result,
                              value, outcome, quota_used >>
       ELSE /\ store' = store \cup rows_to_insert[c]
            /\ inserted' = [inserted EXCEPT ![c] = rows_to_insert[c]]
            /\ Return(c, op[c], db_read_keys[c],
                      BulkRecordResults(c, add_key_results(KeyResults,
                                               FirstSeenResults(rows_to_insert[c]))),
                      check_write_limits_exit(""))

\* missing_records with the pair of a row tested before its id.
missing_records_pair_first(table, rows, new_ids) ==
    LET existing_records == ReadByOrgString(table, RowKeys(rows))
                                \cup ReadById(table, RowIds(rows))
        existing_org_string_set == RowKeys(existing_records)
        existing_id_set == RowIds(existing_records)
    IN {SpannerIndexerModel(r.key, new_ids[r.key]) :
            r \in {q \in rows : q.key \notin existing_org_string_set
                                /\ q.id \in existing_id_set}}
       \cup {r \in rows : r.id \notin existing_id_set /\ r.key \notin existing_org_string_set}

\* insert_rw_transaction_uow's missing_records, new_ids[k] the get_id() of line 294.
missing_records(table, rows, new_ids) ==
    LET existing_records == ReadByOrgString(table, RowKeys(rows))
                                \cup ReadById(table, RowIds(rows))
        existing_org_string_set == RowKeys(existing_records)
        existing_id_set == RowIds(existing_records)
    IN {SpannerIndexerModel(r.key, new_ids[r.key]) : r \in {q \in rows : q.id \in existing_id_set}}
       \cup {r \in rows : r.id \notin existing_id_set /\ r.key \notin existing_org_string_set}

\* The keys of the rows for which insert_rw_transaction_uow calls get_id().
RegeneratedKeys(table, rows) ==
    {r.key : r \in {q \in rows : q.id \in RowIds(ReadByOrgString(table, RowKeys(rows))
                                                    \cup ReadById(table, RowIds(rows)))}}

\* The rows of the committed transaction reported with the id as it is stored.
ReadResults_not_decoded(rows) ==
    [k \in RowKeys(rows) |->
        KeyResult(Some((CHOOSE r \in rows : r.key = k).id), "DB_READ", "")]

\* _insert_collisions_handled: the rows reported once the transaction committed.
ReadResults(rows) ==
    [k \in RowKeys(rows) |->
        KeyResult(Some(decode((CHOOSE r \in rows : r.key = k).id)), "DB_READ", "")]

\* Phase 2 (_insert_collisions_handled): one run of the read-write transaction
\* in the while loop of lines 323-342.  Line 329 catches AlreadyExists and the
\* loop runs the transaction again; InvalidArgument is not caught.
Phase2(c) ==
    /\ pc[c] = "phase2"
    /\ UNCHANGED << op, db_read_keys, rate_limited_key_results, recorded, reverse_key, codec, create >>
    /\ \E new_ids \in [RegeneratedKeys(store, rows_to_insert[c]) -> GenIds] :
         LET rows_inserted == missing_records(store, rows_to_insert[c], new_ids)
         IN IF AlreadyExists(store, rows_inserted)
            THEN \E raised \in ConstraintViolation :
                   IF raised = "AlreadyExists"
                   THEN UNCHANGED << store, pc, db_read_key_results, rows_to_insert,
                                     inserted, result, value, outcome, quota_used >>
                   ELSE /\ Finish(c, raised, KeyResults, None,
                                   check_write_limits_exit(raised))
                        /\ UNCHANGED << store, inserted >>
            ELSE /\ store' = store \cup rows_inserted
                 /\ inserted' = [inserted EXCEPT ![c] = rows_inserted]
                 /\ Return(c, op[c], db_read_keys[c],
                           BulkRecordResults(c, add_key_results(KeyResults,
                                                    ReadResults(rows_inserted))),
                           check_write_limits_exit(""))

\* The error leaves bulk_record after the write limiter consumed the quota.
DatabaseError_quota_used(c) ==
    /\ pc[c] \in {"phase1", "phase2"}
    /\ Finish(c, "DatabaseError", KeyResults, None, TRUE)
    /\ UNCHANGED << store, op, db_read_keys, rate_limited_key_results, inserted,
                    recorded, reverse_key, codec, create >>

\* A transaction raises an error that is neither AlreadyExists nor
\* InvalidArgument: it is not caught and leaves bulk_record.
DatabaseError(c) ==
    /\ pc[c] \in {"phase1", "phase2"}
    /\ Finish(c, "DatabaseError", KeyResults, None, check_write_limits_exit("DatabaseError"))
    /\ UNCHANGED << store, op, db_read_keys, rate_limited_key_results, inserted,
                    recorded, reverse_key, codec, create >>

\* resolve returning the id of the row as it is stored.
resolve_not_decoded(table, org_id, string) ==
    LET results_list == ReadByOrgString(table, {<<org_id, string>>})
    IN IF results_list = {} THEN None
       ELSE Some((CHOOSE r \in results_list : TRUE).id)

\* resolve (lines 403-417).
resolve(table, org_id, string) ==
    LET results_list == ReadByOrgString(table, {<<org_id, string>>})
    IN IF results_list = {} THEN None
       ELSE Some(decode((CHOOSE r \in results_list : TRUE).id))

Resolve(c) ==
    /\ pc[c] = "idle"
    /\ c = "c2"
    /\ \E key \in Keys :
         /\ op' = [op EXCEPT ![c] = "resolve"]
         /\ db_read_keys' = [db_read_keys EXCEPT ![c] = {key}]
         /\ Finish(c, "returned", KeyResults, resolve(store, key[1], key[2]), FALSE)
    /\ UNCHANGED << store, rate_limited_key_results, inserted,
                    recorded, reverse_key, codec, create >>

\* reverse_resolve (lines 419-432).
reverse_resolve(table, org_id, id) ==
    LET results_list == ReadById(table, {id})
    IN IF results_list = {} THEN None
       ELSE Some((CHOOSE r \in results_list : TRUE).key[2])

\* The ids a caller holds (decoded) and the ids of the table (encoded).
LookupIds == GenIds \cup {encode(g) : g \in GenIds}

ReverseResolve(c) ==
    /\ pc[c] = "idle"
    /\ c = "c2"
    /\ \E org_id \in Orgs, id \in LookupIds :
         /\ op' = [op EXCEPT ![c] = "reverse_resolve"]
         /\ reverse_key' = [reverse_key EXCEPT ![c] = {<<org_id, id>>}]
         /\ Finish(c, "returned", KeyResults, reverse_resolve(store, org_id, id), FALSE)
    /\ UNCHANGED << store, db_read_keys, rate_limited_key_results, inserted,
                    recorded, codec, create >>

\* The caller has its call's outcome and is free to call again; rec is what
\* has been returned to callers so far.
RespondWith(c, rec) ==
    /\ pc[c] = "done"
    /\ pc' = [pc EXCEPT ![c] = "idle"]
    /\ recorded' = rec
    /\ op' = [op EXCEPT ![c] = ""]
    /\ outcome' = [outcome EXCEPT ![c] = "none"]
    /\ db_read_keys' = NoCall(db_read_keys, c)
    /\ reverse_key' = NoCall(reverse_key, c)
    /\ inserted' = NoCall(inserted, c)
    /\ value' = NoCall(value, c)
    /\ result' = [result EXCEPT ![c] = KeyResults]
    /\ rate_limited_key_results' = [rate_limited_key_results EXCEPT ![c] = KeyResults]
    /\ quota_used' = [quota_used EXCEPT ![c] = FALSE]
    /\ create' = [create EXCEPT ![c] = CreateOff]
    /\ UNCHANGED << store, db_read_key_results, rows_to_insert, codec >>

Respond(c) == RespondWith(c, recorded)

\* The <<key, id>> with a non-None id that the finished record or bulk_record
\* call of c returned.
ReturnedIds(c) ==
    IF op[c] \in {"record", "bulk_record"} /\ outcome[c] = "returned"
    THEN UNION {{<<k, i>> : i \in result[c][k].id} : k \in DOMAIN result[c]}
    ELSE {}

\* Respond, the ids the call returned being remembered.
Remember(c) == RespondWith(c, recorded \cup ReturnedIds(c))

CodecOff == [stage |-> "off", x |-> 0, y |-> 0, ex |-> 0, ey |-> 0, dx |-> 0]

Init ==
    /\ store = {}
    /\ pc = [c \in Callers |-> "idle"]
    /\ op = [c \in Callers |-> ""]
    /\ db_read_keys = [c \in Callers |-> {}]
    /\ db_read_key_results = [c \in Callers |-> KeyResults]
    /\ rate_limited_key_results = [c \in Callers |-> KeyResults]
    /\ rows_to_insert = [c \in Callers |-> {}]
    /\ inserted = [c \in Callers |-> {}]
    /\ result = [c \in Callers |-> KeyResults]
    /\ value = [c \in Callers |-> None]
    /\ outcome = [c \in Callers |-> "none"]
    /\ quota_used = [c \in Callers |-> FALSE]
    /\ recorded = {}
    /\ reverse_key = [c \in Callers |-> {}]
    /\ create = [c \in Callers |-> CreateOff]
    /\ codec = CodecOff

Next ==
    \E c \in Callers :
        \/ BulkRecord(c)
        \/ Record(c)
        \/ Phase1(c)
        \/ Phase2(c)
        \/ DatabaseError(c)
        \/ Respond(c)

\* Concurrent callers of bulk_record and record.
Spec == Init /\ [][Next]_vars

NextRead ==
    \E c \in Callers :
        \/ BulkRecord(c)
        \/ Record(c)
        \/ Phase1(c)
        \/ Phase2(c)
        \/ DatabaseError(c)
        \/ Resolve(c)
        \/ Remember(c)

\* Concurrent callers of bulk_record, record and resolve, the ids returned
\* being remembered.
SpecRead == Init /\ [][NextRead]_vars

\* No caller but c is in a call.
Alone(c) == \A d \in Callers \ {c} : pc[d] = "idle"

NextSeq ==
    \E c \in Callers :
        \/ Alone(c) /\ BulkRecord(c)
        \/ Alone(c) /\ Record(c)
        \/ Alone(c) /\ Phase1(c)
        \/ Alone(c) /\ Phase2(c)
        \/ Alone(c) /\ DatabaseError(c)
        \/ Alone(c) /\ Remember(c)

\* Calls that do not overlap: no call has a concurrent writer.
SpecSeq == Init /\ [][NextSeq]_vars

NextReverse ==
    \E c \in Callers :
        \/ BulkRecord(c)
        \/ Record(c)
        \/ Phase1(c)
        \/ Phase2(c)
        \/ DatabaseError(c)
        \/ ReverseResolve(c)
        \/ Remember(c)

\* Concurrent callers of bulk_record, record and reverse_resolve.
SpecReverse == Init /\ [][NextReverse]_vars

\* Another consumer (another process running this indexer on the same table)
\* commits an insert transaction of its own: the database takes the row when
\* it violates no constraint.
OtherConsumer ==
    /\ \E key \in Keys, new_id \in GenIds :
         LET rows == {SpannerIndexerModel(key, new_id)}
         IN /\ ~AlreadyExists(store, rows)
            /\ store' = store \cup rows
    /\ UNCHANGED << pc, op, db_read_keys, db_read_key_results, rate_limited_key_results,
                    rows_to_insert, inserted, result, value, outcome, quota_used,
                    recorded, reverse_key, codec, create >>

NextConsumers ==
    \/ \E c \in Callers :
         \/ Alone(c) /\ BulkRecord(c)
         \/ Alone(c) /\ Record(c)
         \/ Alone(c) /\ Resolve(c)
         \/ Alone(c) /\ ReverseResolve(c)
         \/ Phase1(c)
         \/ Phase2(c)
         \/ DatabaseError(c)
         \/ Remember(c)
    \/ OtherConsumer

\* Every operation of the indexer, one call at a time, while other consumers
\* insert into the table: the transactions of a call race with theirs.
SpecConsumers == Init /\ [][NextConsumers]_vars

\* A run of the Phase 2 transaction that commits.
Phase2Commit(c) ==
    /\ Phase2(c)
    /\ pc'[c] = "done"
    /\ outcome'[c] \in {"returned", "KeyError"}

\* The database runs each transaction, and get_id() returns an id that is free
\* before long: a Phase 2 transaction that can commit does commit.  The other
\* consumers insert finitely many rows, the table being bounded.
SpecConsumersFair == SpecConsumers /\ \A c \in Callers : WF_vars(Phase2Commit(c))

NextCreate ==
    \E c \in Callers :
        \/ BulkRecordCreate(c)
        \/ GetId(c)
        \/ Phase1(c)
        \/ Phase2(c)
        \/ DatabaseError(c)
        \/ Respond(c)

\* One caller of bulk_record, _create_db_records run one get_id() at a time.
SpecCreate == Init /\ [][NextCreate]_vars

\* get_id() returns: a _create_db_records that is running calls it again.
SpecCreateFair == SpecCreate /\ \A c \in Callers : WF_vars(GetId(c))

\* ------------------------------------------------ the IdCodec round trip
CodecValues == 0..(Pow2(W) - 1)

InitCodec ==
    /\ store = {}
    /\ pc = [c \in Callers |-> "idle"]
    /\ op = [c \in Callers |-> ""]
    /\ db_read_keys = [c \in Callers |-> {}]
    /\ db_read_key_results = [c \in Callers |-> KeyResults]
    /\ rate_limited_key_results = [c \in Callers |-> KeyResults]
    /\ rows_to_insert = [c \in Callers |-> {}]
    /\ inserted = [c \in Callers |-> {}]
    /\ result = [c \in Callers |-> KeyResults]
    /\ value = [c \in Callers |-> None]
    /\ outcome = [c \in Callers |-> "none"]
    /\ quota_used = [c \in Callers |-> FALSE]
    /\ recorded = {}
    /\ reverse_key = [c \in Callers |-> {}]
    /\ create = [c \in Callers |-> CreateOff]
    /\ \E x, y \in CodecValues :
         codec = [stage |-> "input", x |-> x, y |-> y, ex |-> 0, ey |-> 0, dx |-> 0]

CodecFrame ==
    UNCHANGED << store, pc, op, db_read_keys, db_read_key_results,
                 rate_limited_key_results, rows_to_insert, inserted, result, value,
                 outcome, quota_used, recorded, reverse_key, create >>

\* IdCodec.encode applied to the two inputs.
CodecEncode ==
    /\ codec.stage = "input"
    /\ codec' = [codec EXCEPT !.stage = "encoded",
                              !.ex = encode(codec.x), !.ey = encode(codec.y)]
    /\ CodecFrame

\* IdCodec.decode applied to what encode returned.
CodecDecode ==
    /\ codec.stage = "encoded"
    /\ codec' = [codec EXCEPT !.stage = "decoded", !.dx = decode(codec.ex)]
    /\ CodecFrame

NextCodec == CodecEncode \/ CodecDecode

SpecCodec == InitCodec /\ [][NextCodec]_vars

\* =============================================================== claims
\* bulk_record (called directly or by record) has returned to c.
BulkRecordReturned(c) ==
    /\ pc[c] = "done"
    /\ op[c] \in {"bulk_record", "record"}
    /\ outcome[c] \in {"returned", "KeyError"}

StoreUnique == \A r, q \in store : (r.key = q.key \/ r.id = q.id) => r = q

\* The ids of res for the keys of K are not None and pairwise distinct.
DistinctIds(res, K) ==
    /\ \A k \in K : k \in DOMAIN res /\ res[k].id # None
    /\ \A j, k \in K : (j \in DOMAIN res /\ k \in DOMAIN res /\ j # k) => res[j].id # res[k].id

\* C1: whenever bulk_record returns, the key set of the returned KeyResults is
\* exactly the set of (org_id, string) pairs of the input.
C1_BatchComplete ==
    \A c \in Callers : BulkRecordReturned(c) => DOMAIN result[c] = db_read_keys[c]

\* C2: two bulk_record calls for the same single pair, neither dropped by the
\* write limiter, both return a result for the pair with the same id, not None.
C2_SameId ==
    \A c, d \in Callers : \A k \in Keys :
        ( /\ c # d
          /\ BulkRecordReturned(c) /\ BulkRecordReturned(d)
          /\ db_read_keys[c] = {k} /\ db_read_keys[d] = {k}
          /\ DOMAIN rate_limited_key_results[c] = {}
          /\ DOMAIN rate_limited_key_results[d] = {} )
        => /\ k \in DOMAIN result[c] /\ k \in DOMAIN result[d]
           /\ result[c][k].id # None
           /\ result[c][k].id = result[d][k].id

\* C3: no two rows of the table share (organization_id, string) or id; a
\* transaction adds only rows whose pair and id no row held (one writer wins),
\* and a Phase 1 insert that meets a row with its pair or id inserts nothing and
\* its caller goes on to Phase 2 (or fails), it does not report an insert.
C3_Unique ==
    [][ /\ StoreUnique'
        /\ \A r \in store' \ store : r.key \notin RowKeys(store) /\ r.id \notin RowIds(store)
        /\ \A c \in Callers :
             ( /\ pc[c] = "phase1" /\ pc'[c] # "phase1"
               /\ \E r \in rows_to_insert[c] :
                      r.key \in RowKeys(store) \/ r.id \in RowIds(store) )
             => /\ store' = store
                /\ inserted'[c] = {}
                /\ pc'[c] = "phase2" \/ outcome'[c] = "DatabaseError" ]_vars

\* Two writers contended: one's row is in the table, the other is in Phase 2
\* with a candidate for the same pair.
C3_Witness ==
    \E c \in Callers : \E r \in rows_to_insert[c] : \E q \in store :
        pc[c] = "phase2" /\ r.key = q.key /\ r.id # q.id

\* Every <<key, id>> a record or bulk_record call has returned so far.
Returned == recorded \cup UNION {ReturnedIds(d) : d \in Callers}

\* C4: once record (or bulk_record) has returned id i for a pair, every resolve
\* of the pair that is called later returns i.
C4_ResolveAfterRecord ==
    [][ \A c \in Callers :
          (pc[c] = "idle" /\ pc'[c] = "done" /\ op'[c] = "resolve")
          => \A ki \in Returned :
               ki[1] \in db_read_keys'[c] => value'[c] = Some(ki[2]) ]_vars

\* resolve has returned the id recorded for its pair, with rows of another pair
\* in the table.
C4_Witness ==
    \E c \in Callers : \E ki \in recorded :
        /\ pc[c] = "done" /\ op[c] = "resolve"
        /\ ki[1] \in db_read_keys[c] /\ value[c] = Some(ki[2])
        /\ \E r \in store : r.key # ki[1]

\* C5: when the bulk_record of a record call has returned, record returns None
\* only if the write limiter dropped its key, and else the id stored for the key.
C5_RecordValue ==
    \A c \in Callers :
        (BulkRecordReturned(c) /\ op[c] = "record")
        => \A k \in db_read_keys[c] :
             IF k \in DOMAIN rate_limited_key_results[c]
             THEN outcome[c] = "returned"
             ELSE /\ outcome[c] = "returned"
                  /\ value[c] # None
                  /\ value[c] = resolve(store, k[1], k[2])

\* C6: a key the write limiter dropped is in the returned KeyResults with the
\* key result the limiter supplied, and the call neither creates nor inserts a
\* row for it.
C6_Dropped ==
    \A c \in Callers : \A k \in DOMAIN rate_limited_key_results[c] :
        /\ rate_limited_key_results[c][k] = KeyResult(None, "RATE_LIMITED", "global")
        /\ k \notin RowKeys(rows_to_insert[c])
        /\ k \notin RowKeys(inserted[c])
        /\ BulkRecordReturned(c)
           => k \in DOMAIN result[c] /\ result[c][k] = rate_limited_key_results[c][k]

\* A batch with a dropped key and an inserted key has been returned.
C6_Witness ==
    \E c \in Callers :
        /\ BulkRecordReturned(c)
        /\ DOMAIN rate_limited_key_results[c] # {}
        /\ inserted[c] # {}

\* C7: the write limiter's quota is consumed only when the scoped block exits
\* normally: never while the call is in Phase 1 or Phase 2, never when
\* _create_db_records or a transaction raised, and always once rows were inserted.
C7_Quota ==
    \A c \in Callers :
        /\ quota_used[c] => pc[c] = "done" /\ outcome[c] \in {"returned", "KeyError"}
        /\ outcome[c] \in {"IDGenerationError", "DatabaseError"} => ~quota_used[c]
        /\ pc[c] \in {"phase1", "phase2"} => ~quota_used[c]
        /\ (pc[c] = "done" /\ inserted[c] # {}) => quota_used[c]

\* A call left the block by an exception of its Phase 2 transaction and used no
\* quota, after an earlier call had left it normally and returned the id it inserted.
C7_Witness ==
    \E c \in Callers :
        /\ pc[c] = "done" /\ outcome[c] = "DatabaseError" /\ ~quota_used[c]
        /\ \E r \in store : r.key \in db_read_keys[c]
        /\ recorded # {}

\* C8: decode(encode(x)) = x for every W-bit x, and encode is injective.
C8_Codec ==
    /\ codec.stage = "decoded" => codec.dx = codec.x
    /\ (codec.stage \in {"encoded", "decoded"} /\ codec.x # codec.y) => codec.ex # codec.ey

\* The largest id has been encoded and decoded beside a different id.
C8_Witness ==
    /\ codec.stage = "decoded"
    /\ codec.x = Pow2(W) - 1
    /\ codec.y = 1

\* c's bulk_record is about to run a transaction for a batch none of whose
\* pairs the snapshot read found and all of whose pairs the limiter accepted.
FreshBatch(c) ==
    /\ pc[c] \in {"phase1", "phase2"}
    /\ op[c] = "bulk_record"
    /\ DOMAIN db_read_key_results[c] = {}
    /\ DOMAIN rate_limited_key_results[c] = {}

\* A call starts for a batch whose pairs have all been returned before: it
\* returns the same ids tagged DB_READ and inserts no row.
SecondCall(c) ==
    ( /\ pc[c] = "idle" /\ pc'[c] # "idle" /\ op'[c] = "bulk_record"
      /\ db_read_keys'[c] # {}
      /\ \A k \in db_read_keys'[c] : \E ki \in recorded : ki[1] = k )
    => /\ pc'[c] = "done" /\ outcome'[c] = "returned"
       /\ store' = store
       /\ DOMAIN result'[c] = db_read_keys'[c]
       /\ \A ki \in recorded :
            ki[1] \in db_read_keys'[c]
            => result'[c][ki[1]] = KeyResult(Some(ki[2]), "DB_READ", "")

\* C9 as stated: with no concurrent writer, a batch of pairs not in the store,
\* all accepted, is returned with every pair FIRST_SEEN and pairwise distinct
\* ids; a later identical call returns the same ids as DB_READ, inserting nothing.
C9_Original ==
    [][ \A c \in Callers :
          /\ (FreshBatch(c) /\ pc'[c] = "done" /\ outcome'[c] = "returned")
             => /\ DistinctIds(result'[c], db_read_keys[c])
                /\ \A k \in db_read_keys[c] : result'[c][k].fetch_type = "FIRST_SEEN"
          /\ SecondCall(c) ]_vars

\* C9 amended: the pairs are FIRST_SEEN when Phase 1 commits, which it does
\* when no generated id is the id of a stored row; else Phase 2 inserts them and
\* they are DB_READ.  Either way the ids are not None and pairwise distinct, and a
\* later identical call returns them as DB_READ and inserts nothing.
C9_FirstSeenThenRead ==
    [][ \A c \in Callers :
          /\ (FreshBatch(c) /\ pc[c] = "phase1"
                /\ \A r \in rows_to_insert[c] : r.id \notin RowIds(store))
             => /\ pc'[c] = "done" => outcome'[c] \in {"returned", "DatabaseError"}
                /\ outcome'[c] = "returned"
                   => /\ DistinctIds(result'[c], db_read_keys[c])
                      /\ \A k \in db_read_keys[c] : result'[c][k].fetch_type = "FIRST_SEEN"
                      /\ RowKeys(store' \ store) = db_read_keys[c]
          /\ (FreshBatch(c) /\ pc[c] = "phase2" /\ pc'[c] = "done" /\ outcome'[c] = "returned")
             => /\ DistinctIds(result'[c], db_read_keys[c])
                /\ \A k \in db_read_keys[c] : result'[c][k].fetch_type = "DB_READ"
                /\ RowKeys(store' \ store) = db_read_keys[c]
          /\ SecondCall(c) ]_vars

\* A batch of two pairs has been returned a second time, from the snapshot read.
C9_Witness ==
    \E c \in Callers :
        /\ pc[c] = "done" /\ op[c] = "bulk_record" /\ outcome[c] = "returned"
        /\ Cardinality(db_read_keys[c]) >= 2
        /\ \A k \in db_read_keys[c] :
             /\ k \in DOMAIN result[c] /\ result[c][k].fetch_type = "DB_READ"
             /\ \E ki \in recorded : ki[1] = k /\ result[c][k].id = Some(ki[2])

\* C10: when Phase 1 failed because the table holds a row for some pairs of the
\* batch and not for others, the insert path inserts exactly the rows of the other pairs, leaves
\* the rows of the table alone, and the result has every pair of the batch with
\* pairwise distinct ids, the pair already present with its stored id.
C10_CollisionsHandled ==
    [][ \A c \in Callers :
          ( /\ pc[c] = "phase2"
            /\ \E r \in rows_to_insert[c] : r.key \in RowKeys(store)
            /\ \E r \in rows_to_insert[c] : r.key \notin RowKeys(store)
            /\ \A r \in rows_to_insert[c] : r.id \notin RowIds(store)
            /\ pc'[c] = "done" /\ outcome'[c] \in {"returned", "KeyError"} )
          => /\ store \subseteq store'
             /\ RowKeys(store' \ store) = RowKeys(rows_to_insert[c]) \ RowKeys(store)
             /\ DistinctIds(result'[c], RowKeys(rows_to_insert[c]))
             /\ \A r \in rows_to_insert[c] :
                  /\ r.key \in DOMAIN result'[c]
                  /\ result'[c][r.key].id = resolve(store', r.key[1], r.key[2]) ]_vars

\* The number of keys of the _create_db_records that c runs.
CreateBatchSize(c) == Len(create[c].tuples) + Cardinality(create[c].rows_to_insert)

\* C11: when get_id() returns one value on every call, _create_db_records on a
\* batch of 2 or more keys returns no records (records returned hold 2 or more
\* generated values) and does not run forever; the IDGenerationError it raises
\* leaves bulk_record with nothing inserted, no result and the store as it was.
C11_FixedGenerator ==
    /\ [][ \A c \in Callers :
             (pc[c] = "create" /\ pc'[c] # "create" /\ CreateBatchSize(c) >= 2)
             => /\ pc'[c] = "phase1"
                   => Cardinality({r.decoded_id : r \in rows_to_insert'[c]}) >= 2
                /\ Cardinality(create'[c].generated) = 1
                   => /\ pc'[c] = "done" /\ outcome'[c] = "IDGenerationError"
                /\ pc'[c] = "done"
                   => /\ outcome'[c] = "IDGenerationError"
                      /\ store' = store
                      /\ inserted'[c] = {}
                      /\ result'[c] = KeyResults
                      /\ rows_to_insert'[c] = {} ]_vars
    /\ \A c \in Callers : (pc[c] = "create") ~> (pc[c] # "create")

\* bulk_record of 2 keys has raised IDGenerationError, get_id() having returned
\* one value on every call, with a row in the store.
C11_Witness ==
    \E c \in Callers :
        /\ pc[c] = "done" /\ outcome[c] = "IDGenerationError"
        /\ Cardinality(db_read_keys[c]) = 2
        /\ Cardinality(create[c].generated) = 1
        /\ inserted[c] = {}

\* C12: a constraint violation of an insert never leaves bulk_record: from
\* Phase 1 it leads to Phase 2, from Phase 2 to another run of Phase 2; the
\* errors that leave bulk_record are IDGenerationError and database errors
\* other than the signals of a constraint violation.
C12_ConflictsInternal ==
    [][ \A c \in Callers :
          /\ ( /\ pc[c] = "phase1" /\ pc'[c] # "phase1"
               /\ AlreadyExists(store, rows_to_insert[c]) )
             => pc'[c] = "phase2" \/ outcome'[c] = "DatabaseError"
          /\ (pc[c] \in {"phase1", "phase2"} /\ pc'[c] = "done")
             => outcome'[c] \in {"returned", "KeyError", "DatabaseError"}
          /\ (pc[c] \in {"idle", "create"} /\ pc'[c] = "done")
             => outcome'[c] \in {"returned", "KeyError", "IDGenerationError"} ]_vars

\* C13: a row, once in the table, is in the table with the same id in every
\* later state: every step of bulk_record, record, resolve and reverse_resolve,
\* and of either insert phase, keeps the rows of the table as they are, resolve
\* and reverse_resolve change nothing, and the rows a step adds are for pairs
\* that had no row, one row for each pair.
C13_Permanent ==
    [][ /\ store \subseteq store'
        /\ \A r \in store' \ store : r.key \notin RowKeys(store)
        /\ \A r, q \in store' : r.key = q.key => r = q
        /\ \A c \in Callers :
             (pc[c] = "idle" /\ op'[c] \in {"resolve", "reverse_resolve"}) => store' = store ]_vars

\* A second writer of a pair has been through Phase 2 and has returned: it
\* inserted nothing, and the row of the first writer is in the table.
C13_Witness ==
    \E d \in Callers :
        /\ pc[d] = "done" /\ op[d] = "bulk_record" /\ outcome[d] = "returned"
        /\ inserted[d] = {}
        /\ db_read_keys[d] # {}
        /\ \A k \in db_read_keys[d] : k \notin DOMAIN result[d] /\ k \in RowKeys(store)

\* C14: once record (or bulk_record) has returned the id i for the pair
\* (org, s), reverse_resolve(org, i) returns s.
C14_ReverseResolve ==
    [][ \A c \in Callers :
          (pc[c] = "idle" /\ pc'[c] = "done" /\ op'[c] = "reverse_resolve")
          => \A ki \in Returned : \A oi \in reverse_key'[c] :
               (oi[1] = ki[1][1] /\ oi[2] = ki[2]) => value'[c] = Some(ki[1][2]) ]_vars

\* C15: every run of the retry loop of Phase 2 comes to an end: a call that is
\* in Phase 2 leaves it.
C15_Phase2Terminates ==
    \A c \in Callers : (pc[c] = "phase2") ~> (pc[c] # "phase2")

C17_Phase1AllOrNothing ==
    [][ \A c \in Callers :
          (pc[c] = "phase1" /\ pc'[c] # "phase1")
          => IF \E r \in rows_to_insert[c] : r.key \in RowKeys(store) \/ r.id \in RowIds(store)
             THEN /\ store' = store
                  /\ inserted'[c] = {}
                  /\ result'[c] = KeyResults
                  /\ pc'[c] = "phase2" \/ outcome'[c] = "DatabaseError"
             ELSE \/ /\ outcome'[c] = "DatabaseError"
                     /\ store' = store
                  \/ /\ pc'[c] = "done" /\ outcome'[c] = "returned"
                     /\ store' = store \cup rows_to_insert[c]
                     /\ inserted'[c] = rows_to_insert[c]
                     /\ \A r \in rows_to_insert[c] :
                          /\ r.key \in DOMAIN result'[c]
                          /\ result'[c][r.key] =
                                KeyResult(Some(r.decoded_id), "FIRST_SEEN", "")
                          /\ decode(r.id) = r.decoded_id ]_vars

\* The Phase 1 insert of a batch of two has aborted on one row, the other row
\* violating nothing: neither is in the table.
C17_Witness ==
    \E c \in Callers : \E r, q \in rows_to_insert[c] :
        /\ pc[c] = "phase2"
        /\ r.key \in RowKeys(store) /\ r \notin store
        /\ q.key \notin RowKeys(store) /\ q.id \notin RowIds(store)

\* C18: for one key, _create_db_records calls get_id() again after a duplicate
\* at most _MAX_CONSECUTIVE_ID_GENERATION_FAILURES (5) times: the count of
\* retries stays within the bound, IDGenerationError is raised with the count
\* within the bound, and _create_db_records ends with no other error.
C18_RetryBound ==
    [][ \A c \in Callers :
          pc[c] = "create"
          => /\ create'[c].failed_id_generation_count
                   <= _MAX_CONSECUTIVE_ID_GENERATION_FAILURES
             /\ outcome'[c] = "IDGenerationError"
                => create[c].failed_id_generation_count
                      <= _MAX_CONSECUTIVE_ID_GENERATION_FAILURES
             /\ pc'[c] = "done" => outcome'[c] = "IDGenerationError" ]_vars

\* C19: when the snapshot read of bulk_record finds a row for every pair of the
\* call, bulk_record returns at once, every pair tagged DB_READ with the decoded
\* id of its row: the write limiter is not consulted and its quota not used, no
\* id is generated, no row is submitted or inserted, the table is as it was.
C19_AllResolved ==
    [][ \A c \in Callers :
          ( /\ pc[c] = "idle" /\ pc'[c] # "idle"
            /\ op'[c] \in {"bulk_record", "record"}
            /\ db_read_keys'[c] \subseteq RowKeys(store) )
          => /\ pc'[c] = "done" /\ outcome'[c] = "returned"
             /\ store' = store
             /\ ~quota_used'[c]
             /\ rate_limited_key_results'[c] = KeyResults
             /\ rows_to_insert'[c] = {}
             /\ inserted'[c] = {}
             /\ create' = create
             /\ DOMAIN result'[c] = db_read_keys'[c]
             /\ \A k \in db_read_keys'[c] :
                  result'[c][k] =
                     KeyResult(Some((CHOOSE r \in store : r.key = k).decoded_id),
                               "DB_READ", "") ]_vars

\* bulk_record has returned a batch of two pairs from its snapshot read alone.
C19_Witness ==
    \E c \in Callers :
        /\ pc[c] = "done" /\ op[c] = "bulk_record" /\ outcome[c] = "returned"
        /\ Cardinality(db_read_keys[c]) >= 2
        /\ inserted[c] = {} /\ ~quota_used[c]
        /\ DOMAIN rate_limited_key_results[c] = {}
        /\ \A k \in db_read_keys[c] :
             k \in DOMAIN result[c] /\ result[c][k].fetch_type = "DB_READ"

\* C20: the rows a call submits in one transaction have pairwise distinct ids:
\* the rows _create_db_records built for Phase 1, and the rows a Phase 2
\* transaction submits, whatever get_id() returns in it.
C20_DistinctSubmitted ==
    \A c \in Callers :
        /\ pc[c] \in {"phase1", "phase2"}
           => \A r, q \in rows_to_insert[c] : r.id = q.id => r = q
        /\ pc[c] = "phase2"
           => \A new_ids \in [RegeneratedKeys(store, rows_to_insert[c]) -> GenIds] :
                \A r, q \in missing_records(store, rows_to_insert[c], new_ids) :
                    r.id = q.id => r = q

\* The entries of res tagged FIRST_SEEN or DB_READ.
SoundTags == {"FIRST_SEEN", "DB_READ"}

\* C21: every entry that bulk_record returns tagged FIRST_SEEN or DB_READ, for
\* the pair k with the id i, has its row in the table, with the pair k and the
\* id encode(i), when the call returns and ever after; a FIRST_SEEN entry is for
\* a row this call inserted.  A run of the Phase 2 transaction that is aborted
\* reports nothing: the call stays in Phase 2 with no result and nothing
\* inserted.  The step that returns a FIRST_SEEN entry for k is the step that
\* puts the row of k in the table, and no step takes a row out: no two calls
\* report one pair as FIRST_SEEN.
C21_Sound ==
    /\ [](\A c \in Callers :
            (pc[c] = "done" /\ op[c] \in {"record", "bulk_record"})
            => \A k \in DOMAIN result[c] :
                 result[c][k].fetch_type \in SoundTags
                 => /\ result[c][k].id # None
                    /\ \A i \in result[c][k].id :
                         /\ \E r \in store : r.key = k /\ r.id = encode(i)
                         /\ result[c][k].fetch_type = "FIRST_SEEN"
                            => \E r \in inserted[c] : r.key = k /\ r.id = encode(i))
    /\ [][ /\ store \subseteq store'
           /\ \A c \in Callers :
                /\ (pc[c] = "phase2" /\ pc'[c] = "phase2")
                   => result'[c] = KeyResults /\ inserted'[c] = {}
                /\ (pc[c] # "done" /\ pc'[c] = "done")
                   => \A k \in DOMAIN result'[c] :
                        result'[c][k].fetch_type = "FIRST_SEEN"
                        => /\ k \notin RowKeys(store)
                           /\ k \in RowKeys(store')
                           /\ \A d \in Callers :
                                k \in DOMAIN result[d]
                                => result[d][k].fetch_type # "FIRST_SEEN" ]_vars

\* bulk_record of two pairs has returned one of them read (DB_READ) and the
\* other inserted by it (FIRST_SEEN), the table holding the rows of both.
C21_Witness ==
    \E c \in Callers :
        /\ pc[c] = "done" /\ op[c] = "bulk_record" /\ outcome[c] = "returned"
        /\ \E j, k \in DOMAIN result[c] :
             /\ result[c][j].fetch_type = "FIRST_SEEN"
             /\ result[c][k].fetch_type = "DB_READ"
             /\ {j, k} \subseteq RowKeys(store)
             /\ j \in RowKeys(inserted[c])

\* The <<key, id>> that the finished resolve calls hold.
Resolved ==
    UNION {{<<k, i>> : k \in db_read_keys[c], i \in value[c]} :
               c \in {d \in Callers : pc[d] = "done" /\ op[d] = "resolve"}}

\* C22: two results with the same non-None id, returned by bulk_record, record
\* or resolve calls of any callers at any time, are for the same pair; every
\* id returned is the decoded id of the row of its pair; every row of the
\* table has id = encode(decoded_id), and no two rows share a decoded id.
C22_Injective ==
    /\ \A a, b \in Returned \cup Resolved : a[2] = b[2] => a[1] = b[1]
    /\ \A a \in Returned \cup Resolved :
         \E r \in store : r.key = a[1] /\ r.decoded_id = a[2] /\ decode(r.id) = a[2]
    /\ \A r \in store : r.id = encode(r.decoded_id)
    /\ \A r, q \in store : r.decoded_id = q.decoded_id => r = q

\* Calls have returned different ids for two pairs, and resolve has returned
\* the id of one of the pairs.
C22_Witness ==
    \E c \in Callers : \E a, b \in recorded :
        /\ a[1] # b[1] /\ a[2] # b[2]
        /\ pc[c] = "done" /\ op[c] = "resolve"
        /\ a[1] \in db_read_keys[c] /\ value[c] = Some(a[2])

\* C23: reverse_resolve(org, id) returns a string s only if the table holds a
\* row with the primary key id whose organization is org and whose string is s;
\* for an id held by a row of another organization it returns None, so its
\* answer depends on the rows of org alone; the call leaves the table as it was.
C23_Scoped ==
    [][ \A c \in Callers :
          (pc[c] = "idle" /\ pc'[c] = "done" /\ op'[c] = "reverse_resolve")
          => /\ store' = store
             /\ \A oi \in reverse_key'[c] :
                  /\ value'[c] = reverse_resolve({r \in store : r.key[1] = oi[1]}, oi[1], oi[2])
                  /\ \A s \in value'[c] :
                       \E r \in store : r.id = oi[2] /\ r.key = <<oi[1], s>>
                  /\ (\E r \in store : r.id = oi[2] /\ r.key[1] # oi[1])
                     => value'[c] = None ]_vars
====
